---------------------------- MODULE Spec2Model ----------------------------
(***************************************************************************)
(* Roulette simulation engine of casino_simulator: outcomes, bets, the     *)
(* wheel built by BinBuilder, the table's limits, the two betting          *)
(* strategies (Passenger57, Martingale), Game.cycle and the                *)
(* RouletteSimulator session / gather loops.                               *)
(*                                                                         *)
(* Odds are fractions.Fraction values in the source; every odds value the  *)
(* builder passes is a whole number, so they are modelled as integers and  *)
(* all stake arithmetic is exact (a stake that became a whole-valued       *)
(* Fraction after a win is used by random.randint as that whole number).   *)
(* Every random draw of the code is a choice over all values it can give.  *)
(***************************************************************************)
EXTENDS Integers, Sequences, FiniteSets, TLC

VARIABLES
    player_class,   \* RouletteSimulator.player_class
    init_duration,  \* RouletteSimulator.init_duration
    init_stake,     \* RouletteSimulator.init_stake
    samples,        \* RouletteSimulator.samples
    table,          \* RouletteTable: [min, max, bets]
    player,         \* the current player: [cls, stake, rounds, loss_count, wager]
    stakes,         \* the local list of RouletteSimulator.session
    durations,      \* RouletteSimulator.durations
    maxima,         \* RouletteSimulator.maxima
    sample,         \* the loop variable of RouletteSimulator.gather
    pc,             \* where the control is
    error,          \* the exception raised by the last operation, or "none"
    cycles,         \* history: Game.cycle calls made in the current session
    peak,           \* history: largest stake seen after a cycle of the session
    streak,         \* history: bets lost in a row since the last win
    log,            \* history: one [cycles, peak] record per finished session
    op,             \* history: the last operation called and what it was given
    calls,          \* history: operations called directly on the game objects
    spins,          \* the winning bins the wheel's random source has delivered
    pos,            \* how many of them the current run has used
    first,          \* the durations and maxima of an earlier run, once made
    fact,           \* OutcomeFactory.outcomes (class attribute): the cache
    outcomes,       \* Wheel.outcomes (class attribute)
    wheels,         \* the Wheel objects made so far: [bins]
    todo            \* the generate_* members build_bins has yet to run

vars == <<player_class, init_duration, init_stake, samples, table, player,
          stakes, durations, maxima, sample, pc, error, cycles, peak, streak,
          log, op, calls, spins, pos, first, fact, outcomes, wheels, todo>>

replayVars == <<spins, pos, first>>

wheelVars == <<fact, outcomes, wheels, todo>>

(***************************************************************************)
(* Outcome, Bet                                                            *)
(***************************************************************************)
Outcome(name, odds) == [name |-> name, odds |-> odds]

\* Outcome.__eq__: by name only.
OutcomeEq(a, b) == a.name = b.name

\* Outcome.win_amount
OutcomeWinAmount(oc, amount) == oc.odds * amount

Bet(amount, outcome) == [amount |-> amount, outcome |-> outcome]

\* win_amount without the return of the amount staked
win_amount_no_stake(bet) == OutcomeWinAmount(bet.outcome, bet.amount)

\* Bet.win_amount
win_amount(bet) == OutcomeWinAmount(bet.outcome, bet.amount) + bet.amount

\* Bet.lose_amount
lose_amount(bet) == bet.amount

(***************************************************************************)
(* Wheel and BinBuilder.  Each generate_* routine is the set of            *)
(* Wheel.add_outcome(number, outcome) calls it makes.                      *)
(***************************************************************************)
NumBins == 38

Digit == <<"0", "1", "2", "3", "4", "5", "6", "7", "8", "9">>

\* the f-string formatting of a non-negative integer
RECURSIVE ToStr(_)
ToStr(n) == IF n < 10 THEN Digit[n + 1]
            ELSE ToStr(n \div 10) \o Digit[(n % 10) + 1]

AddOutcome(number, oc) == [number |-> number, outcome |-> oc]

generate_zero_bets ==
    {AddOutcome(n, Outcome("00-0-1-2-3", 6)) : n \in {37, 0, 1, 2, 3}}

generate_straight_bets ==
    {AddOutcome(0, Outcome("0", 35))}
    \cup {AddOutcome(n, Outcome(ToStr(n), 35)) : n \in 1..36}
    \cup {AddOutcome(37, Outcome("00", 35))}

generate_left_right_split_bets ==
    UNION {UNION {LET n == (3 * r) + c
                      oc == Outcome("Split " \o ToStr(n) \o "-" \o ToStr(n + 1), 17)
                  IN {AddOutcome(n, oc), AddOutcome(n + 1, oc)}
                  : r \in 0..11} : c \in {1, 2}}

generate_up_down_split_bets ==
    UNION {LET oc == Outcome("Split " \o ToStr(n) \o "-" \o ToStr(n + 3), 17)
           IN {AddOutcome(n, oc), AddOutcome(n + 3, oc)} : n \in 1..33}

generate_street_bets ==
    UNION {LET n == (3 * r) + 1
               oc == Outcome("Street " \o ToStr(n) \o "-" \o ToStr(n + 1)
                             \o "-" \o ToStr(n + 2), 11)
           IN {AddOutcome(n + i, oc) : i \in 0..2} : r \in 0..11}

generate_corner_bets ==
    UNION {UNION {LET n == (3 * r) + col
                      oc == Outcome("Corner " \o ToStr(n) \o "-" \o ToStr(n + 1)
                                    \o "-" \o ToStr(n + 3) \o "-" \o ToStr(n + 4), 8)
                  IN {AddOutcome(n + i, oc) : i \in {0, 1, 3, 4}}
                  : r \in 0..10} : col \in {1, 2}}

generate_line_bets ==
    UNION {LET n == (3 * r) + 1
               oc == Outcome("Line " \o ToStr(n) \o "-" \o ToStr(n + 1) \o "-"
                             \o ToStr(n + 2) \o "-" \o ToStr(n + 3) \o "-"
                             \o ToStr(n + 4) \o "-" \o ToStr(n + 5), 5)
           IN {AddOutcome(n + i, oc) : i \in 0..5} : r \in 0..10}

generate_dozen_bets ==
    UNION {LET oc == Outcome("Dozen " \o ToStr(d + 1), 2)
           IN {AddOutcome((12 * d) + n + 1, oc) : n \in 0..11} : d \in 0..2}

generate_column_bets ==
    UNION {LET oc == Outcome("Column " \o ToStr(c + 1), 2)
           IN {AddOutcome((3 * r) + c + 1, oc) : r \in 0..11} : c \in 0..2}

RedNumbers == {1, 3, 5, 7, 9, 12, 14, 16, 18, 19, 21, 23, 25, 30, 32, 34, 36}

\* generate_even_money_bets with Low on 1..19
generate_even_money_bets_low19 ==
    UNION {{AddOutcome(n, IF n < 20 THEN Outcome("Low", 1) ELSE Outcome("High", 1)),
            AddOutcome(n, IF n % 2 # 0 THEN Outcome("Odd", 1) ELSE Outcome("Even", 1)),
            AddOutcome(n, IF n \in RedNumbers THEN Outcome("Red", 1)
                          ELSE Outcome("Black", 1))} : n \in 1..36}

generate_even_money_bets ==
    UNION {{AddOutcome(n, IF n < 19 THEN Outcome("Low", 1) ELSE Outcome("High", 1)),
            AddOutcome(n, IF n % 2 # 0 THEN Outcome("Odd", 1) ELSE Outcome("Even", 1)),
            AddOutcome(n, IF n \in RedNumbers THEN Outcome("Red", 1)
                          ELSE Outcome("Black", 1))} : n \in 1..36}

\* BinBuilder.build_bins: every generate_* member is run on 38 empty bins.
build_bins ==
    generate_column_bets \cup generate_corner_bets \cup generate_dozen_bets
    \cup generate_even_money_bets \cup generate_left_right_split_bets
    \cup generate_line_bets \cup generate_straight_bets
    \cup generate_street_bets \cup generate_up_down_split_bets
    \cup generate_zero_bets

\* Wheel.bins after construction: bin number |-> Bin.outcomes
WheelBins ==
    [n \in 0..(NumBins - 1) |->
        {c.outcome : c \in {d \in build_bins : d.number = n}}]

\* Wheel.outcomes after construction
WheelOutcomes == {c.outcome : c \in build_bins}

\* Wheel.get_outcome: the outcomes of that name (none: the sentinel False)
get_outcome(name) == {oc \in WheelOutcomes : oc.name = name}

\* Wheel.get_random_outcome: random.choice over the wheel's outcomes
get_random_outcome == WheelOutcomes

\* Wheel.next: rng.choice over the 38 bin numbers
WheelNext == 0..(NumBins - 1)

\* bet.outcome in win_bin.outcomes (set membership by Outcome.__eq__)
InBin(oc, number) == \E o \in WheelBins[number] : OutcomeEq(o, oc)

(***************************************************************************)
(* RouletteTable                                                           *)
(***************************************************************************)
RouletteTable(_min, _max) == [min |-> _min, max |-> _max, bets |-> <<>>]

\* the loop "for current in self: total += current.amount"
RECURSIVE Total(_)
Total(bets) == IF bets = <<>> THEN 0
               ELSE bets[1].amount + Total(Tail(bets))

\* is_valid without the running total of the bets already placed
is_valid_no_total(tbl, bet) ==
    tbl.max >= bet.amount /\ bet.amount >= tbl.min

\* is_valid with a strict comparison of the running total against max
is_valid_strict(tbl, bet) ==
    IF ~(tbl.max >= bet.amount /\ bet.amount >= tbl.min)
    THEN FALSE
    ELSE tbl.max > (Total(tbl.bets) + bet.amount)

\* is_valid without the comparison of the amount with the table minimum
is_valid_no_min(tbl, bet) ==
    IF ~(tbl.max >= bet.amount)
    THEN FALSE
    ELSE tbl.max >= (Total(tbl.bets) + bet.amount)

\* RouletteTable.is_valid
is_valid(tbl, bet) ==
    IF ~(tbl.max >= bet.amount /\ bet.amount >= tbl.min)
    THEN FALSE
    ELSE tbl.max >= (Total(tbl.bets) + bet.amount)

\* Table.place_bet putting the new bet in front of the list
Table_place_bet_front(tbl, bet) ==
    IF ~(IF ~(tbl.max >= bet.amount /\ bet.amount >= tbl.min) THEN FALSE
         ELSE tbl.max >= (Total(tbl.bets) + bet.amount))
    THEN [table |-> tbl, error |-> "InvalidBetError"]
    ELSE [table |-> [tbl EXCEPT !.bets = <<bet>> \o @], error |-> "none"]

\* Table.place_bet: the table afterwards and the exception raised, if any
Table_place_bet(tbl, bet) ==
    IF ~is_valid(tbl, bet)
    THEN [table |-> tbl, error |-> "InvalidBetError"]
    ELSE [table |-> [tbl EXCEPT !.bets = Append(@, bet)], error |-> "none"]

\* Table.clear
Table_clear(tbl) == [tbl EXCEPT !.bets = <<>>]

(***************************************************************************)
(* Players.  A player is [cls, stake, rounds, loss_count, wager]; the last *)
(* two are attributes of Martingale only and are carried unused by a       *)
(* Passenger57.                                                            *)
(***************************************************************************)
PlayerClasses == {"Passenger57", "Martingale"}

\* the default of Martingale.__init__(table, wager=10)
DefaultWager == 10

\* the amount Passenger57.make_bet falls back to
FallbackAmount == 50

\* Passenger57.__init__: self.black = wheel.get_outcome('Black')
Black == CHOOSE oc \in get_outcome("Black") : TRUE

RECURSIVE Pow2(_)
Pow2(k) == IF k = 0 THEN 1 ELSE 2 * Pow2(k - 1)

\* can_bet without the comparison of the amount with the stake
can_bet_table_only(p, tbl, bet) ==
    IF ~is_valid(tbl, bet) THEN FALSE ELSE TRUE

\* can_bet without the table's is_valid check
can_bet_stake_only(p, tbl, bet) ==
    IF bet.amount > p.stake THEN FALSE ELSE TRUE

\* Player.can_bet
can_bet(p, tbl, bet) ==
    IF bet.amount > p.stake \/ ~is_valid(tbl, bet) THEN FALSE ELSE TRUE

\* Passenger57.make_bet: random.randint(table.min, stake), or the fallback
Passenger57_make_bet(p, tbl) ==
    IF ~(tbl.min > p.stake)
    THEN {Bet(amount, Black) : amount \in tbl.min..p.stake}
    ELSE {Bet(FallbackAmount, Black)}

\* Martingale.make_bet: wager * 2**loss_count on a random outcome
Martingale_make_bet(p, tbl) ==
    LET amount == p.wager * Pow2(p.loss_count)
    IN  {Bet(amount, outcome) : outcome \in get_random_outcome}

\* make_bet of the player's class: every bet the call can return
make_bet(p, tbl) ==
    IF p.cls = "Passenger57" THEN Passenger57_make_bet(p, tbl)
    ELSE Martingale_make_bet(p, tbl)

\* can_continue without the test of the remaining rounds
can_continue_no_rounds(p, tbl) ==
    {can_bet(p, tbl, bet) : bet \in make_bet(p, tbl)}

\* RoulettePlayer.can_continue: every value the call can return (it draws
\* a bet of its own with make_bet)
can_continue(p, tbl) ==
    {p.rounds > 0 /\ can_bet(p, tbl, bet) : bet \in make_bet(p, tbl)}

\* Player.playing
playing(p, tbl) == can_continue(p, tbl)

\* Player.win, with the overrides of Passenger57 and Martingale
win(p, bet) ==
    LET q == [p EXCEPT !.stake = @ + win_amount(bet)]
    IN  IF p.cls = "Martingale" THEN [q EXCEPT !.loss_count = 0] ELSE q

\* lose that leaves the loss counter alone
lose_no_count(p, bet) == p

\* Passenger57.lose / Martingale.lose
lose(p, bet) ==
    IF p.cls = "Martingale" THEN [p EXCEPT !.loss_count = @ + 1] ELSE p

\* place_bet without "self.rounds -= 1"
Player_place_bet_keep_rounds(p, tbl, bet, cont) ==
    IF ~(cont /\ can_bet(p, tbl, bet))
    THEN [player |-> p, table |-> tbl, error |-> "none", placed |-> FALSE]
    ELSE LET p2 == [p EXCEPT !.stake = @ - bet.amount]
             r == Table_place_bet(tbl, bet)
         IN  [player |-> p2, table |-> r.table, error |-> r.error,
              placed |-> r.error = "none"]

\* place_bet deducting the amount before the bet is checked
Player_place_bet_charge_first(p, tbl, bet, cont) ==
    LET p1 == [p EXCEPT !.rounds = @ - 1, !.stake = @ - bet.amount]
    IN  IF ~(cont /\ can_bet(p, tbl, bet))
        THEN [player |-> p1, table |-> tbl, error |-> "none", placed |-> FALSE]
        ELSE LET r == Table_place_bet(tbl, bet)
             IN  [player |-> p1, table |-> r.table, error |-> r.error,
                  placed |-> r.error = "none"]

\* RoulettePlayer.place_bet.  bet is what its make_bet call returned and
\* cont what its can_continue call returned, both after rounds -= 1.
Player_place_bet(p, tbl, bet, cont) ==
    LET p1 == [p EXCEPT !.rounds = @ - 1]
    IN  IF ~(cont /\ can_bet(p1, tbl, bet))
        THEN [player |-> p1, table |-> tbl, error |-> "none", placed |-> FALSE]
        ELSE LET p2 == [p1 EXCEPT !.stake = @ - bet.amount]
                 r == Table_place_bet(tbl, bet)
             IN  [player |-> p2, table |-> r.table, error |-> r.error,
                  placed |-> r.error = "none"]


(***************************************************************************)
(* RouletteGame                                                            *)
(***************************************************************************)
\* the loop of RouletteGame.cycle over the table's bets
RECURSIVE Resolve(_, _, _)
Resolve(p, bets, win_bin) ==
    IF bets = <<>> THEN p
    ELSE Resolve(IF InBin(bets[1].outcome, win_bin) THEN win(p, bets[1])
                 ELSE lose(p, bets[1]),
                 Tail(bets), win_bin)

\* A cycle reads the outcome of a bet only through its odds and through
\* its membership in the winning bin, so of all (outcome, winning bin)
\* pairs that agree on both, one is explored.
SpinClass(oc, number) == <<oc.odds, InBin(oc, number)>>

SpinDrawsOf(ocs) ==
    LET all == ocs \X WheelNext
        classes == {SpinClass(pr[1], pr[2]) : pr \in all}
    IN  {CHOOSE pr \in all : SpinClass(pr[1], pr[2]) = k : k \in classes}

MartingaleSpinDraws == SpinDrawsOf(get_random_outcome)

Passenger57SpinDraws == SpinDrawsOf({Black})

\* the draws of a cycle with can_continue evaluated before rounds -= 1
CycleDraws_before_decrement(p, tbl) ==
    LET p1 == [p EXCEPT !.rounds = @ - 1]
        spun == IF p.cls = "Martingale" THEN MartingaleSpinDraws
                ELSE Passenger57SpinDraws
        amounts == {bet.amount : bet \in make_bet(p1, tbl)}
    IN  {[bet |-> Bet(amount, s[1]), cont |-> cont, win_bin |-> s[2]] :
            amount \in amounts, cont \in can_continue(p, tbl), s \in spun}

\* what one Game.cycle draws: the bet of place_bet's make_bet call, the
\* value of its can_continue call (both after rounds -= 1) and the bin of
\* Wheel.next
CycleDraws(p, tbl) ==
    LET p1 == [p EXCEPT !.rounds = @ - 1]
        spun == IF p.cls = "Martingale" THEN MartingaleSpinDraws
                ELSE Passenger57SpinDraws
        amounts == {bet.amount : bet \in make_bet(p1, tbl)}
    IN  {[bet |-> Bet(amount, s[1]), cont |-> cont, win_bin |-> s[2]] :
            amount \in amounts, cont \in can_continue(p1, tbl), s \in spun}

\* cycle clearing the table only when the player placed a bet
cycle_clear_if_placed(p, tbl, bet, cont, win_bin) ==
    LET r == Player_place_bet(p, tbl, bet, cont)
    IN  IF r.error # "none"
        THEN [player |-> r.player, table |-> r.table, error |-> r.error,
              placed |-> FALSE]
        ELSE [player |-> Resolve(r.player, r.table.bets, win_bin),
              table |-> IF r.placed THEN Table_clear(r.table) ELSE r.table,
              error |-> "none", placed |-> r.placed]

\* RouletteGame.cycle: an exception of place_bet ends the cycle before the spin
cycle(p, tbl, bet, cont, win_bin) ==
    LET r == Player_place_bet(p, tbl, bet, cont)
    IN  IF r.error # "none"
        THEN [player |-> r.player, table |-> r.table, error |-> r.error,
              placed |-> FALSE]
        ELSE [player |-> Resolve(r.player, r.table.bets, win_bin),
              table |-> Table_clear(r.table), error |-> "none",
              placed |-> r.placed]

(***************************************************************************)
(* RouletteSimulator                                                       *)
(***************************************************************************)
\* RouletteSimulator.create_player
create_player(cls, stake, rounds) ==
    [cls |-> cls, stake |-> stake, rounds |-> rounds, loss_count |-> 0,
     wager |-> DefaultWager]

\* the last element of the list in place of its maximum
Max_last(s) == s[Len(s)]

\* max(session) of a non-empty list
RECURSIVE Max(_)
Max(s) == IF Len(s) = 1 THEN s[1]
          ELSE LET m == Max(Tail(s)) IN IF s[1] >= m THEN s[1] ELSE m

\* the largest init_duration and samples of the configurations explored,
\* and the most rounds (samples * init_duration) one of them plays
MaxDuration == 3
MaxSamples == 2
MaxRounds == 6

\* player_class, table_limits and init_stake of the configurations explored
Configs ==
    {[player_class |-> "Martingale", min |-> 5, max |-> 25, init_stake |-> 100],
     [player_class |-> "Martingale", min |-> 5, max |-> 500, init_stake |-> 30],
     [player_class |-> "Martingale", min |-> 20, max |-> 500, init_stake |-> 100],
     [player_class |-> "Passenger57", min |-> 5, max |-> 6, init_stake |-> 8],
     [player_class |-> "Passenger57", min |-> 40, max |-> 60, init_stake |-> 30]}

\* RouletteSimulator.__init__ (setup_session, create_player, two empty lists)
Init ==
    \E c \in Configs, d \in 0..MaxDuration, n \in 0..MaxSamples :
        /\ d * n <= MaxRounds
        /\ player_class = c.player_class
        /\ init_duration = d
        /\ init_stake = c.init_stake
        /\ samples = n
        /\ table = RouletteTable(c.min, c.max)
        /\ player = create_player(c.player_class, c.init_stake, d)
        /\ stakes = <<>>
        /\ durations = <<>>
        /\ maxima = <<>>
        /\ sample = 0
        /\ pc = "gather"
        /\ error = "none"
        /\ cycles = 0
        /\ peak = <<>>
        /\ streak = 0
        /\ log = <<>>
        /\ op = [name |-> "__init__", placed |-> FALSE, won |-> FALSE]
        /\ calls = 0
        /\ spins = <<>>
        /\ pos = 0
        /\ first = <<>>
        /\ fact = WheelOutcomes
        /\ outcomes = WheelOutcomes
        /\ wheels = <<[bins |-> WheelBins]>>
        /\ todo = {}

\* gather: the next pass of "for sample in range(self.samples)" calls
\* session(), which starts with an empty stakes list
StartSession ==
    /\ pc = "gather"
    /\ sample < samples
    /\ pc' = "session"
    /\ stakes' = <<>>
    /\ cycles' = 0
    /\ peak' = <<>>
    /\ streak' = 0
    /\ op' = [name |-> "session", placed |-> FALSE, won |-> FALSE]
    /\ UNCHANGED replayVars
    /\ UNCHANGED wheelVars
    /\ UNCHANGED <<player_class, init_duration, init_stake, samples, table,
                   player, durations, maxima, sample, error, log, calls>>

\* one pass of "while self.player.playing()" in session, given what the
\* cycle draws: Game.cycle and stakes.append(int(self.player.stake))
CycleStep(d) ==
    LET r == cycle(player, table, d.bet, d.cont, d.win_bin)
        won == r.placed /\ InBin(d.bet.outcome, d.win_bin)
    IN  /\ player' = r.player
        /\ table' = r.table
        /\ error' = r.error
        /\ cycles' = cycles + 1
        /\ op' = [name |-> "cycle", placed |-> r.placed, won |-> won]
        /\ streak' = IF ~r.placed THEN streak
                     ELSE IF won THEN 0 ELSE streak + 1
        /\ IF r.error = "none"
           THEN /\ stakes' = Append(stakes, r.player.stake)
                /\ peak' = IF peak = <<>> \/ r.player.stake > peak[1]
                           THEN <<r.player.stake>> ELSE peak
                /\ pc' = "session"
           ELSE /\ pc' = "raised"
                /\ UNCHANGED <<stakes, peak>>
        /\ UNCHANGED <<player_class, init_duration, init_stake, samples,
                       durations, maxima, sample, log, calls>>

SessionCycle ==
    /\ pc = "session"
    /\ TRUE \in playing(player, table)
    /\ \E d \in CycleDraws(player, table) : CycleStep(d)
    /\ UNCHANGED replayVars
    /\ UNCHANGED wheelVars

\* session without the create_player() call before it returns
SessionReturn_keep_player ==
    /\ pc = "session"
    /\ FALSE \in playing(player, table)
    /\ player' = player
    /\ log' = Append(log, [cycles |-> cycles, peak |-> peak])
    /\ pc' = "returned"
    /\ op' = [name |-> "create_player", placed |-> FALSE, won |-> FALSE]
    /\ UNCHANGED replayVars
    /\ UNCHANGED wheelVars
    /\ UNCHANGED <<player_class, init_duration, init_stake, samples, table,
                   stakes, durations, maxima, sample, error, cycles, peak,
                   streak, calls>>

\* session: playing() is false, so the player is replaced by create_player()
\* and the stakes list is returned
SessionReturn ==
    /\ pc = "session"
    /\ FALSE \in playing(player, table)
    /\ player' = create_player(player_class, init_stake, init_duration)
    /\ log' = Append(log, [cycles |-> cycles, peak |-> peak])
    /\ pc' = "returned"
    /\ op' = [name |-> "create_player", placed |-> FALSE, won |-> FALSE]
    /\ UNCHANGED replayVars
    /\ UNCHANGED wheelVars
    /\ UNCHANGED <<player_class, init_duration, init_stake, samples, table,
                   stakes, durations, maxima, sample, error, cycles, peak,
                   streak, calls>>

\* gather: durations.append(len(session)); maxima.append(max(session)),
\* where max of an empty list raises ValueError
GatherRecord ==
    /\ pc = "returned"
    /\ durations' = Append(durations, Len(stakes))
    /\ IF stakes = <<>>
       THEN /\ error' = "ValueError"
            /\ pc' = "raised"
            /\ UNCHANGED <<maxima, sample>>
       ELSE /\ maxima' = Append(maxima, Max(stakes))
            /\ sample' = sample + 1
            /\ pc' = "gather"
            /\ UNCHANGED error
    /\ op' = [name |-> "record", placed |-> FALSE, won |-> FALSE]
    /\ UNCHANGED replayVars
    /\ UNCHANGED wheelVars
    /\ UNCHANGED <<player_class, init_duration, init_stake, samples, table,
                   player, stakes, cycles, peak, streak, log, calls>>

\* gather: the loop has run samples times and gather returns
GatherReturn ==
    /\ pc = "gather"
    /\ sample >= samples
    /\ pc' = "done"
    /\ op' = [name |-> "return", placed |-> FALSE, won |-> FALSE]
    /\ UNCHANGED replayVars
    /\ UNCHANGED wheelVars
    /\ UNCHANGED <<player_class, init_duration, init_stake, samples, table,
                   player, stakes, durations, maxima, sample, error, cycles,
                   peak, streak, log, calls>>

Next ==
    \/ StartSession
    \/ SessionCycle
    \/ SessionReturn
    \/ GatherRecord
    \/ GatherReturn

\* one call of gather() on a freshly constructed simulator
Spec == Init /\ [][Next]_vars

(***************************************************************************)
(* The game objects used directly: any sequence of Table.place_bet,        *)
(* RoulettePlayer.place_bet, RouletteGame.cycle and Table.clear on one     *)
(* table and one player.                                                   *)
(***************************************************************************)
\* the most operations of one such sequence
MaxCalls == 3

\* the table limits, bet amounts, outcomes and winning bins explored
ApiLimits == {[min |-> 5, max |-> 25]}
ApiAmounts == {0, 4, 5, 10, 20, 26}
ApiOutcomes == {oc \in WheelOutcomes : oc.name \in {"Black", "17"}}
ApiBins == {0, 17, 20}
ApiStakes == [Martingale |-> 100, Passenger57 |-> 8]

ApiInit ==
    \E cls \in PlayerClasses, l \in ApiLimits, d \in 0..MaxDuration :
        /\ player_class = cls
        /\ init_duration = d
        /\ init_stake = ApiStakes[cls]
        /\ samples = 0
        /\ table = RouletteTable(l.min, l.max)
        /\ player = create_player(cls, ApiStakes[cls], d)
        /\ stakes = <<>>
        /\ durations = <<>>
        /\ maxima = <<>>
        /\ sample = 0
        /\ pc = "api"
        /\ error = "none"
        /\ cycles = 0
        /\ peak = <<>>
        /\ streak = 0
        /\ log = <<>>
        /\ op = [name |-> "__init__"]
        /\ calls = 0
        /\ spins = <<>>
        /\ pos = 0
        /\ first = <<>>
        /\ fact = WheelOutcomes
        /\ outcomes = WheelOutcomes
        /\ wheels = <<[bins |-> WheelBins]>>
        /\ todo = {}

\* the draws of RoulettePlayer.place_bet that are explored
ApiPlaceDraws(p, tbl) ==
    LET p1 == [p EXCEPT !.rounds = @ - 1]
    IN  {[bet |-> bet, cont |-> cont] :
            bet \in {b \in make_bet(p1, tbl) :
                        /\ b.outcome \in ApiOutcomes
                        /\ p.cls = "Passenger57" => b.amount \in ApiAmounts},
            cont \in can_continue(p1, tbl)}

\* table.place_bet(bet) for any bet
ApiTablePlaceBet ==
    /\ pc = "api"
    /\ calls < MaxCalls
    /\ \E amount \in ApiAmounts, oc \in ApiOutcomes :
          LET bet == Bet(amount, oc)
              r == Table_place_bet(table, bet)
          IN  /\ table' = r.table
              /\ error' = r.error
              /\ op' = [name |-> "Table.place_bet", bet |-> bet]
    /\ calls' = calls + 1
    /\ UNCHANGED replayVars
    /\ UNCHANGED wheelVars
    /\ UNCHANGED <<player_class, init_duration, init_stake, samples, player,
                   stakes, durations, maxima, sample, pc, cycles, peak,
                   streak, log>>

\* player.place_bet()
ApiPlayerPlaceBet ==
    /\ pc = "api"
    /\ calls < MaxCalls
    /\ \E d \in ApiPlaceDraws(player, table) :
          LET r == Player_place_bet(player, table, d.bet, d.cont)
          IN  /\ player' = r.player
              /\ table' = r.table
              /\ error' = r.error
              /\ op' = [name |-> "Player.place_bet", bet |-> d.bet,
                        cont |-> d.cont, placed |-> r.placed]
    /\ calls' = calls + 1
    /\ UNCHANGED replayVars
    /\ UNCHANGED wheelVars
    /\ UNCHANGED <<player_class, init_duration, init_stake, samples, stakes,
                   durations, maxima, sample, pc, cycles, peak, streak, log>>

\* game.cycle(player)
ApiCycle ==
    /\ pc = "api"
    /\ calls < MaxCalls
    /\ \E d \in ApiPlaceDraws(player, table), win_bin \in ApiBins :
          LET r == cycle(player, table, d.bet, d.cont, win_bin)
          IN  /\ player' = r.player
              /\ table' = r.table
              /\ error' = r.error
              /\ op' = [name |-> "Game.cycle", bet |-> d.bet, cont |-> d.cont,
                        placed |-> r.placed, win_bin |-> win_bin]
    /\ calls' = calls + 1
    /\ UNCHANGED replayVars
    /\ UNCHANGED wheelVars
    /\ UNCHANGED <<player_class, init_duration, init_stake, samples, stakes,
                   durations, maxima, sample, pc, cycles, peak, streak, log>>

\* table.clear()
ApiClear ==
    /\ pc = "api"
    /\ calls < MaxCalls
    /\ table' = Table_clear(table)
    /\ error' = "none"
    /\ op' = [name |-> "Table.clear"]
    /\ calls' = calls + 1
    /\ UNCHANGED replayVars
    /\ UNCHANGED wheelVars
    /\ UNCHANGED <<player_class, init_duration, init_stake, samples, player,
                   stakes, durations, maxima, sample, pc, cycles, peak,
                   streak, log>>

ApiNext ==
    \/ ApiTablePlaceBet
    \/ ApiPlayerPlaceBet
    \/ ApiCycle
    \/ ApiClear

ApiSpec == ApiInit /\ [][ApiNext]_vars

(***************************************************************************)
(* Two runs of gather() on equal configurations, one after the other, the  *)
(* second with a wheel whose random source delivers the winning bins of    *)
(* the first again (and goes on freely if the second run spins more        *)
(* often).                                                                 *)
(***************************************************************************)
\* the largest init_duration and samples of the configurations run twice
MaxReplayDuration == 2
MaxReplaySamples == 1

ReplayInit ==
    /\ Init
    /\ init_duration <= MaxReplayDuration
    /\ samples <= MaxReplaySamples

\* what one Game.cycle draws, with the outcomes and winning bins explored
ReplayDraws(p, tbl) ==
    LET p1 == [p EXCEPT !.rounds = @ - 1]
    IN  {[bet |-> bet, cont |-> cont, win_bin |-> win_bin] :
            bet \in {b \in make_bet(p1, tbl) : b.outcome \in ApiOutcomes},
            cont \in can_continue(p1, tbl),
            win_bin \in ApiBins}

\* one pass of the loop of session, the wheel taking its next bin
ReplayCycle ==
    /\ pc = "session"
    /\ TRUE \in playing(player, table)
    /\ \E d \in ReplayDraws(player, table) :
          /\ pos < Len(spins) => d.win_bin = spins[pos + 1]
          /\ spins' = IF pos < Len(spins) THEN spins
                      ELSE Append(spins, d.win_bin)
          /\ CycleStep(d)
    /\ pos' = pos + 1
    /\ UNCHANGED first
    /\ UNCHANGED wheelVars

\* the first run is over (gather returned or raised): its lists are kept
\* and a simulator is constructed again from the same configuration
ReplayAgain ==
    /\ pc \in {"done", "raised"}
    /\ first = <<>>
    /\ first' = <<[durations |-> durations, maxima |-> maxima]>>
    /\ pos' = 0
    /\ table' = RouletteTable(table.min, table.max)
    /\ player' = create_player(player_class, init_stake, init_duration)
    /\ stakes' = <<>>
    /\ durations' = <<>>
    /\ maxima' = <<>>
    /\ sample' = 0
    /\ pc' = "gather"
    /\ error' = "none"
    /\ cycles' = 0
    /\ peak' = <<>>
    /\ streak' = 0
    /\ log' = <<>>
    /\ op' = [name |-> "__init__", placed |-> FALSE, won |-> FALSE]
    /\ wheels' = Append(wheels, [bins |-> WheelBins])
    /\ UNCHANGED <<player_class, init_duration, init_stake, samples, calls,
                   spins, fact, outcomes, todo>>

ReplayNext ==
    \/ StartSession
    \/ ReplayCycle
    \/ SessionReturn
    \/ GatherRecord
    \/ GatherReturn
    \/ ReplayAgain

ReplaySpec == ReplayInit /\ [][ReplayNext]_vars

(***************************************************************************)
(* The wheel under construction and in use: OutcomeFactory.make,           *)
(* Outcome(name, odds), Wheel() with the generate_* members of its         *)
(* BinBuilder run one after the other, and Wheel.add_outcome on a wheel    *)
(* that has been built.  build_bins runs the members in the order of       *)
(* inspect.getmembers; here they run in every order.  The cache of the     *)
(* factory and Wheel.outcomes are class attributes, shared by all wheels.  *)
(***************************************************************************)
\* the names of a set of outcomes
Names(S) == {oc.name : oc \in S}

\* set.add(oc) and "|= set([oc])" under Outcome.__hash__ / __eq__: an
\* element of the same name is kept and oc is not added
SetAdd(S, oc) == IF oc.name \in Names(S) THEN S ELSE S \cup {oc}

\* Outcome.__init__ on an odds argument [type, val]: the exception raised
\* and the outcomes created (one or none)
Outcome_init(name, odds) ==
    IF ~(odds.type = "Fraction")
    THEN [error |-> "InvalidObjectError", created |-> {}]
    ELSE [error |-> "none", created |-> {Outcome(name, odds.val)}]

\* Fraction(odds) of an int, a float of whole value or a Fraction
Fraction(odds) == [type |-> "Fraction", val |-> odds.val]

\* OutcomeFactory._outcome
OutcomeFactory__outcome(cache, name, odds) ==
    LET r == Outcome_init(name, Fraction(odds))
        oc == CHOOSE o \in r.created : TRUE
    IN  [cache |-> cache \cup {oc}, outcome |-> oc]

\* make storing the outcome of the latest call under the name
OutcomeFactory_make_overwrite(cache, name, odds) ==
    LET r == Outcome_init(name, Fraction(odds))
        oc == CHOOSE o \in r.created : TRUE
    IN  [cache |-> {o \in cache : o.name # name} \cup {oc}, outcome |-> oc]

\* OutcomeFactory.make: the cache afterwards and the outcome returned
OutcomeFactory_make(cache, name, odds) ==
    IF name \in Names(cache)
    THEN [cache |-> cache, outcome |-> CHOOSE o \in cache : o.name = name]
    ELSE OutcomeFactory__outcome(cache, name, odds)

\* Wheel.add_outcome on the bins of one wheel and Wheel.outcomes
add_outcome(bs, ocs, number, oc) ==
    IF ~(0 <= number /\ number <= 37)
    THEN [bins |-> bs, outcomes |-> ocs, ret |-> "NotImplemented"]
    ELSE [bins |-> [bs EXCEPT ![number] = SetAdd(@, oc)],
          outcomes |-> SetAdd(ocs, oc), ret |-> "None"]

\* the generate_* members of BinBuilder by name
Generators ==
    [generate_column_bets |-> generate_column_bets,
     generate_corner_bets |-> generate_corner_bets,
     generate_dozen_bets |-> generate_dozen_bets,
     generate_even_money_bets |-> generate_even_money_bets,
     generate_left_right_split_bets |-> generate_left_right_split_bets,
     generate_line_bets |-> generate_line_bets,
     generate_straight_bets |-> generate_straight_bets,
     generate_street_bets |-> generate_street_bets,
     generate_up_down_split_bets |-> generate_up_down_split_bets,
     generate_zero_bets |-> generate_zero_bets]

\* the outcomes one generate_* member asks the factory for, and those it
\* adds to bin n
Requested == [g \in DOMAIN Generators |-> {c.outcome : c \in Generators[g]}]

RequestedAt ==
    [g \in DOMAIN Generators |->
        [n \in 0..(NumBins - 1) |->
            {c.outcome : c \in {d \in Generators[g] : d.number = n}}]]

\* a generate_* member whose outcomes replace those already in a bin
RunGenerator_replace(bs, ocs, cache, g) ==
    LET cached == Names(cache)
        made == {Outcome_init(o.name, Fraction([type |-> "int",
                                                 val |-> o.odds])).created :
                    o \in {r \in Requested[g] : r.name \notin cached}}
        cache2 == cache \cup UNION made
        asked == Names(Requested[g])
        got == {o \in cache2 : o.name \in asked}
        gotAt(n) == LET ns == Names(RequestedAt[g][n])
                    IN  {o \in got : o.name \in ns}
        add(S, T) == LET ns == Names(S)
                     IN  S \cup {o \in T : o.name \notin ns}
    IN  [bins |-> [n \in 0..(NumBins - 1) |->
                      IF gotAt(n) = {} THEN bs[n] ELSE gotAt(n)],
         outcomes |-> add(ocs, got),
         fact |-> cache2]

\* one generate_* member on the bins of a wheel, Wheel.outcomes and the
\* cache: all its fact.make(name, odds) and wheel.add_outcome(number, oc)
\* calls together (a member asks for each name at one odds value only, so
\* the order of its calls has no influence)
RunGenerator(bs, ocs, cache, g) ==
    LET cached == Names(cache)
        made == {Outcome_init(o.name, Fraction([type |-> "int",
                                                 val |-> o.odds])).created :
                    o \in {r \in Requested[g] : r.name \notin cached}}
        cache2 == cache \cup UNION made
        asked == Names(Requested[g])
        got == {o \in cache2 : o.name \in asked}
        gotAt(n) == LET ns == Names(RequestedAt[g][n])
                    IN  {o \in got : o.name \in ns}
        add(S, T) == LET ns == Names(S)
                     IN  S \cup {o \in T : o.name \notin ns}
    IN  [bins |-> [n \in 0..(NumBins - 1) |-> add(bs[n], gotAt(n))],
         outcomes |-> add(ocs, got),
         fact |-> cache2]

\* the most wheels made and the most direct calls on factory, wheels and
\* Outcome
MaxWheels == 2
MaxWheelCalls == 2

\* the arguments of the direct calls explored
MakeNames == {"Red", "X"}
MakeOdds == {1, 5}
AddNumbers == {-1, 2, 38}
AddOutcomes == {Outcome("Red", 7), Outcome("X", 5)}
OddsArgs == [type : {"Fraction", "int", "float"}, val : {-2, 0, 3}]

\* the simulator's variables, which the wheel operations leave alone
simVars == <<player_class, init_duration, init_stake, samples, table, player,
             stakes, durations, maxima, sample, cycles, peak, streak, log>>

\* a process in which no wheel and no simulator has been made
WheelInit ==
    /\ player_class = "none"
    /\ init_duration = 0
    /\ init_stake = 0
    /\ samples = 0
    /\ table = RouletteTable(0, 0)
    /\ player = create_player("none", 0, 0)
    /\ stakes = <<>>
    /\ durations = <<>>
    /\ maxima = <<>>
    /\ sample = 0
    /\ pc = "wheel"
    /\ error = "none"
    /\ cycles = 0
    /\ peak = <<>>
    /\ streak = 0
    /\ log = <<>>
    /\ op = [name |-> "__init__"]
    /\ calls = 0
    /\ spins = <<>>
    /\ pos = 0
    /\ first = <<>>
    /\ fact = {}
    /\ outcomes = {}
    /\ wheels = <<>>
    /\ todo = {}

\* Wheel(): build_bins gives the new wheel 38 empty bins and collects the
\* generate_* members.  The wheels explored are made before the first of
\* the direct calls.
WheelNew ==
    /\ pc = "wheel"
    /\ Len(wheels) < MaxWheels
    /\ calls = 0
    /\ wheels' = Append(wheels, [bins |-> [n \in 0..(NumBins - 1) |-> {}]])
    /\ todo' = DOMAIN Generators
    /\ pc' = "build_bins"
    /\ error' = "none"
    /\ op' = [name |-> "build_bins"]
    /\ UNCHANGED <<fact, outcomes, calls>>
    /\ UNCHANGED simVars
    /\ UNCHANGED replayVars

\* build_bins: one generate_* member runs
Generate ==
    /\ pc = "build_bins"
    /\ \E g \in todo :
          LET w == Len(wheels)
              r == RunGenerator(wheels[w].bins, outcomes, fact, g)
          IN  /\ wheels' = [wheels EXCEPT ![w].bins = r.bins]
              /\ outcomes' = r.outcomes
              /\ fact' = r.fact
              /\ todo' = todo \ {g}
    /\ UNCHANGED <<pc, error, op, calls>>
    /\ UNCHANGED simVars
    /\ UNCHANGED replayVars

\* build_bins and Wheel() return
WheelBuilt ==
    /\ pc = "build_bins"
    /\ todo = {}
    /\ pc' = "wheel"
    /\ op' = [name |-> "Wheel"]
    /\ UNCHANGED <<fact, outcomes, wheels, todo, error, calls>>
    /\ UNCHANGED simVars
    /\ UNCHANGED replayVars

\* wheel.add_outcome(number, outcome) on a wheel that has been built
WheelAddOutcome ==
    /\ pc = "wheel"
    /\ calls < MaxWheelCalls
    /\ \E w \in 1..Len(wheels), number \in AddNumbers, oc \in AddOutcomes :
          LET r == add_outcome(wheels[w].bins, outcomes, number, oc)
          IN  /\ wheels' = [wheels EXCEPT ![w].bins = r.bins]
              /\ outcomes' = r.outcomes
              /\ op' = [name |-> "Wheel.add_outcome", wheel |-> w,
                        number |-> number, outcome |-> oc, ret |-> r.ret]
    /\ calls' = calls + 1
    /\ error' = "none"
    /\ UNCHANGED <<fact, todo, pc>>
    /\ UNCHANGED simVars
    /\ UNCHANGED replayVars

\* OutcomeFactory().make(name, odds)
FactoryMake ==
    /\ pc = "wheel"
    /\ calls < MaxWheelCalls
    /\ \E name \in MakeNames, odds \in MakeOdds :
          LET r == OutcomeFactory_make(fact, name,
                                       [type |-> "int", val |-> odds])
          IN  /\ fact' = r.cache
              /\ op' = [name |-> "OutcomeFactory.make", key |-> name,
                        odds |-> odds, outcome |-> r.outcome]
    /\ calls' = calls + 1
    /\ error' = "none"
    /\ UNCHANGED <<outcomes, wheels, todo, pc>>
    /\ UNCHANGED simVars
    /\ UNCHANGED replayVars

\* Outcome(name, odds)
OutcomeNew ==
    /\ pc = "wheel"
    /\ calls < MaxWheelCalls
    /\ \E odds \in OddsArgs :
          LET r == Outcome_init("X", odds)
          IN  /\ error' = r.error
              /\ op' = [name |-> "Outcome", odds |-> odds,
                        created |-> r.created]
    /\ calls' = calls + 1
    /\ UNCHANGED <<fact, outcomes, wheels, todo, pc>>
    /\ UNCHANGED simVars
    /\ UNCHANGED replayVars

WheelStep ==
    \/ WheelNew
    \/ Generate
    \/ WheelBuilt
    \/ WheelAddOutcome
    \/ FactoryMake
    \/ OutcomeNew

WheelSpec == WheelInit /\ [][WheelStep]_vars

(***************************************************************************)
(* The queries of player and table, playing(), can_continue(),             *)
(* can_bet(bet) and Table.is_valid(bet), called in any sequence with       *)
(* Table.place_bet and RoulettePlayer.place_bet, on tables and stakes that *)
(* include a stake below the table minimum.  A query assigns to no         *)
(* attribute of player or table; what it draws comes from the random       *)
(* module.                                                                 *)
(***************************************************************************)
\* the most calls of one such sequence
MaxQueries == 2

\* the table limits, stakes and bets explored
QueryLimits == {[min |-> 5, max |-> 25], [min |-> 40, max |-> 60],
                [min |-> 50, max |-> 50], [min |-> 60, max |-> 100]}
QueryStakes == {0, 8, 30, 55}
QueryBets == {Bet(amount, Black) : amount \in {4, 5, 50, 60}}

QueryInit ==
    \E cls \in PlayerClasses, l \in QueryLimits, s \in QueryStakes,
       d \in 0..MaxDuration :
        /\ player_class = cls
        /\ init_duration = d
        /\ init_stake = s
        /\ samples = 0
        /\ table = RouletteTable(l.min, l.max)
        /\ player = create_player(cls, s, d)
        /\ stakes = <<>>
        /\ durations = <<>>
        /\ maxima = <<>>
        /\ sample = 0
        /\ pc = "query"
        /\ error = "none"
        /\ cycles = 0
        /\ peak = <<>>
        /\ streak = 0
        /\ log = <<>>
        /\ op = [name |-> "__init__"]
        /\ calls = 0
        /\ spins = <<>>
        /\ pos = 0
        /\ first = <<>>
        /\ fact = WheelOutcomes
        /\ outcomes = WheelOutcomes
        /\ wheels = <<[bins |-> WheelBins]>>
        /\ todo = {}

\* what the queries and place_bet calls below leave alone
queryFrame == <<player_class, init_duration, init_stake, samples, stakes,
                durations, maxima, sample, pc, cycles, peak, streak, log>>

\* player.playing()
QueryPlaying ==
    /\ pc = "query"
    /\ calls < MaxQueries
    /\ \E ret \in playing(player, table) :
          op' = [name |-> "playing", ret |-> ret]
    /\ calls' = calls + 1
    /\ error' = "none"
    /\ UNCHANGED <<player, table>>
    /\ UNCHANGED queryFrame
    /\ UNCHANGED replayVars
    /\ UNCHANGED wheelVars

\* can_continue() using up one of the player's rounds
QueryCanContinue_consuming ==
    /\ pc = "query"
    /\ calls < MaxQueries
    /\ \E ret \in can_continue(player, table) :
          op' = [name |-> "can_continue", ret |-> ret]
    /\ calls' = calls + 1
    /\ error' = "none"
    /\ player' = [player EXCEPT !.rounds = @ - 1]
    /\ UNCHANGED table
    /\ UNCHANGED queryFrame
    /\ UNCHANGED replayVars
    /\ UNCHANGED wheelVars

\* player.can_continue()
QueryCanContinue ==
    /\ pc = "query"
    /\ calls < MaxQueries
    /\ \E ret \in can_continue(player, table) :
          op' = [name |-> "can_continue", ret |-> ret]
    /\ calls' = calls + 1
    /\ error' = "none"
    /\ UNCHANGED <<player, table>>
    /\ UNCHANGED queryFrame
    /\ UNCHANGED replayVars
    /\ UNCHANGED wheelVars

\* player.can_bet(bet)
QueryCanBet ==
    /\ pc = "query"
    /\ calls < MaxQueries
    /\ \E bet \in QueryBets :
          op' = [name |-> "can_bet", bet |-> bet,
                 ret |-> can_bet(player, table, bet)]
    /\ calls' = calls + 1
    /\ error' = "none"
    /\ UNCHANGED <<player, table>>
    /\ UNCHANGED queryFrame
    /\ UNCHANGED replayVars
    /\ UNCHANGED wheelVars

\* table.is_valid(bet)
QueryIsValid ==
    /\ pc = "query"
    /\ calls < MaxQueries
    /\ \E bet \in QueryBets :
          op' = [name |-> "is_valid", bet |-> bet,
                 ret |-> is_valid(table, bet)]
    /\ calls' = calls + 1
    /\ error' = "none"
    /\ UNCHANGED <<player, table>>
    /\ UNCHANGED queryFrame
    /\ UNCHANGED replayVars
    /\ UNCHANGED wheelVars

\* the draws of RoulettePlayer.place_bet that are explored: every amount,
\* on the outcomes of ApiOutcomes
QueryPlaceDraws(p, tbl) ==
    LET p1 == [p EXCEPT !.rounds = @ - 1]
    IN  {[bet |-> bet, cont |-> cont] :
            bet \in {b \in make_bet(p1, tbl) : b.outcome \in ApiOutcomes},
            cont \in can_continue(p1, tbl)}

\* player.place_bet()
QueryPlayerPlaceBet ==
    /\ pc = "query"
    /\ calls < MaxQueries
    /\ \E d \in QueryPlaceDraws(player, table) :
          LET r == Player_place_bet(player, table, d.bet, d.cont)
          IN  /\ player' = r.player
              /\ table' = r.table
              /\ error' = r.error
              /\ op' = [name |-> "Player.place_bet", bet |-> d.bet,
                        cont |-> d.cont, placed |-> r.placed]
    /\ calls' = calls + 1
    /\ UNCHANGED queryFrame
    /\ UNCHANGED replayVars
    /\ UNCHANGED wheelVars

\* table.place_bet(bet)
QueryTablePlaceBet ==
    /\ pc = "query"
    /\ calls < MaxQueries
    /\ \E bet \in QueryBets :
          LET r == Table_place_bet(table, bet)
          IN  /\ table' = r.table
              /\ error' = r.error
              /\ op' = [name |-> "Table.place_bet", bet |-> bet]
    /\ calls' = calls + 1
    /\ UNCHANGED player
    /\ UNCHANGED queryFrame
    /\ UNCHANGED replayVars
    /\ UNCHANGED wheelVars

QueryNext ==
    \/ QueryPlaying
    \/ QueryCanContinue
    \/ QueryCanBet
    \/ QueryIsValid
    \/ QueryPlayerPlaceBet
    \/ QueryTablePlaceBet

QuerySpec == QueryInit /\ [][QueryNext]_vars

(***************************************************************************)
(* Properties                                                              *)
(***************************************************************************)
\* the sum of a list of bets' amounts, by position
RECURSIVE SumTo(_, _)
SumTo(bets, n) == IF n = 0 THEN 0 ELSE SumTo(bets, n - 1) + bets[n].amount

RunningTotal == SumTo(table.bets, Len(table.bets))

\* C1: at all times the amounts of the bets on the table sum to at most
\* table.max and every bet on the table has an amount within
\* [table.min, table.max].
C1_TableWithinLimits ==
    /\ RunningTotal <= table.max
    /\ \A i \in 1..Len(table.bets) :
          table.min <= table.bets[i].amount /\ table.bets[i].amount <= table.max

\* several bets on the table that together reach the maximum exactly
C1_Witness ==
    /\ Len(table.bets) >= 2
    /\ RunningTotal = table.max

C3_PlaceBetOrRaise ==
    [][(op'.name = "Table.place_bet" /\ calls' = calls + 1) =>
          IF ~is_valid(table, op'.bet)
          THEN error' = "InvalidBetError" /\ table' = table
          ELSE /\ error' = "none"
               /\ table'.bets = Append(table.bets, op'.bet)
               /\ table'.min = table.min /\ table'.max = table.max]_vars

\* a valid bet was placed after an earlier, different one, which kept its
\* place
C3_Witness ==
    /\ op.name = "Table.place_bet"
    /\ error = "none"
    /\ Len(table.bets) = 2
    /\ table.bets[2] = op.bet
    /\ table.bets[1] # op.bet

\* a bet was refused with bets already on the table
C3_WitnessRaise ==
    /\ op.name = "Table.place_bet"
    /\ error = "InvalidBetError"
    /\ Len(table.bets) = 2

\* the amounts a Martingale player's next make_bet call can return
NextWagers == {bet.amount : bet \in make_bet(player, table)}

C4_Wager ==
    (player.cls = "Martingale" /\ pc = "session") =>
        /\ NextWagers = {player.wager * Pow2(streak)}
        /\ (op.name = "cycle" /\ op.won) =>
              player.loss_count = 0 /\ NextWagers = {player.wager}

C4_Step ==
    (player.cls = "Martingale" /\ pc = "session" /\ pc' = "session") =>
        /\ (player'.loss_count # player.loss_count) => op'.placed
        /\ (op'.placed /\ ~op'.won) =>
              player'.loss_count = player.loss_count + 1
        /\ player'.wager = player.wager

\* C4: in every session of a Martingale player with base wager w the wager
\* made after k bets lost in a row (since the last win or the start of the
\* session) is w * 2^k, after a won bet it is w again with loss_count 0,
\* and loss_count changes only when a placed bet is resolved, by one more
\* on each lost bet, whatever its value.
C4_Martingale == []C4_Wager /\ [][C4_Step]_vars

\* two bets lost in a row, so that the next wager is four times the base
C4_Witness ==
    /\ player.cls = "Martingale"
    /\ pc = "session"
    /\ streak = 2
    /\ NextWagers = {4 * player.wager}

\* C5: the loop of session() makes at most init_duration cycles: each
\* Game.cycle takes exactly one from the player's rounds and playing() is
\* false once rounds is 0.
C5_SessionBounded ==
    /\ cycles <= init_duration
    /\ pc = "session" => player.rounds = init_duration - cycles
    /\ player.rounds <= 0 => playing(player, table) = {FALSE}

\* a session that ran until its rounds were used up
C5_Witness ==
    /\ pc = "session"
    /\ init_duration >= 2
    /\ cycles = init_duration
    /\ player.rounds = 0

\* C6: gather() on a fresh simulator completes and leaves durations and
\* maxima with exactly samples entries each, also when a session makes no
\* cycle.
C6_GatherCompletes ==
    /\ pc # "raised"
    /\ pc = "done" => Len(durations) = samples /\ Len(maxima) = samples

\* C7: entry i of durations is the number of cycles of session i and entry
\* i of maxima the largest stake recorded after a cycle of that session;
\* between sessions and after gather() both lists have one entry for each
\* session finished, in session order.
C7_ParallelRecords ==
    pc # "raised" =>
        /\ Len(durations) = sample
        /\ Len(maxima) = sample
        /\ Len(log) >= sample
        /\ pc = "done" => sample = samples /\ Len(log) = samples
        /\ \A i \in 1..sample :
              /\ durations[i] = log[i].cycles
              /\ <<maxima[i]>> = log[i].peak

\* gather() returned after two sessions of different lengths and peaks,
\* the first of which had a winning bet
C7_Witness ==
    /\ pc = "done"
    /\ sample = 2
    /\ durations[1] > durations[2]
    /\ maxima[1] # maxima[2]
    /\ maxima[1] > init_stake

C8_NoCycle ==
    init_duration = 0 =>
        /\ cycles = 0
        /\ stakes = <<>>
        /\ table.bets = <<>>
        /\ player.stake = init_stake
        /\ \A i \in 1..Len(log) : log[i].cycles = 0 /\ log[i].peak = <<>>

C8_Step ==
    init_duration = 0 =>
        table' = table /\ init_stake' = init_stake /\ stakes' = <<>>

\* C8: a session started with rounds = 0 makes no Game.cycle call and
\* returns an empty list of stakes; the table and the initial stake stay
\* as they were.
C8_ZeroRounds == []C8_NoCycle /\ [][C8_Step]_vars

\* a session of a player with no rounds has returned
C8_Witness ==
    /\ init_duration = 0
    /\ pc = "returned"
    /\ Len(log) = 1

\* C10: whenever session() has returned, and so at the start of every
\* session of gather(), the player is of the configured class with
\* stake = init_stake, rounds = init_duration and loss_count = 0, and the
\* table holds no bets.
C10_FreshPlayer ==
    (pc \in {"gather", "returned", "done"}
        \/ (pc = "session" /\ op.name = "session")) =>
        /\ player.cls = player_class
        /\ player.stake = init_stake
        /\ player.rounds = init_duration
        /\ player.loss_count = 0
        /\ table.bets = <<>>

\* the second session has returned, having stopped before its rounds were
\* used up with bets lost and the stake changed
C10_Witness ==
    /\ pc = "returned"
    /\ sample = 1
    /\ cycles >= 1
    /\ cycles < init_duration
    /\ streak >= 1
    /\ stakes[Len(stakes)] # init_stake

\* C9: two runs with the same configuration and the same sequence of
\* winning bins end with the same durations and maxima.
C9_Reproducible ==
    (first # <<>> /\ pc \in {"done", "raised"}) =>
        /\ durations = first[1].durations
        /\ maxima = first[1].maxima

\* the credit of the first n bets of a list, each bet whose outcome is in
\* the winning bin counted once with its win_amount
RECURSIVE Credit(_, _, _)
Credit(bets, win_bin, n) ==
    IF n = 0 THEN 0
    ELSE Credit(bets, win_bin, n - 1)
         + (IF InBin(bets[n].outcome, win_bin) THEN win_amount(bets[n])
            ELSE 0)

\* the number of bets after the last bet of the list that is in the
\* winning bin (all of them if none is)
LossesAtEnd(bets, win_bin) ==
    LET wins == {i \in 1..Len(bets) : InBin(bets[i].outcome, win_bin)}
        last == IF wins = {} THEN 0
                ELSE CHOOSE i \in wins : \A j \in wins : j <= i
    IN  Len(bets) - last

\* C11: a Game.cycle resolves every bet on the table exactly once, as won
\* if and only if its outcome is in the winning bin and as lost otherwise
\* (the stake grows by the win_amount of each winning bet once, a
\* Martingale's loss counter is reset by each win and grows by one with
\* each loss), and afterwards the table holds no bets, also when the player
\* placed no bet in that cycle.
C11_CycleResolves ==
    [][(op'.name = "Game.cycle" /\ calls' = calls + 1 /\ error' = "none") =>
         LET bets == table.bets \o (IF op'.placed THEN <<op'.bet>> ELSE <<>>)
             paid == IF op'.placed THEN op'.bet.amount ELSE 0
             some == \E i \in 1..Len(bets) :
                        InBin(bets[i].outcome, op'.win_bin)
         IN  /\ table'.bets = <<>>
             /\ player'.stake =
                    player.stake - paid + Credit(bets, op'.win_bin, Len(bets))
             /\ player.cls = "Martingale" =>
                    player'.loss_count =
                        (IF some THEN 0 ELSE player.loss_count)
                        + LossesAtEnd(bets, op'.win_bin)
             /\ player.cls = "Passenger57" =>
                    player'.loss_count = player.loss_count]_vars

\* a cycle in which the player placed no bet resolved a winning bet that
\* was on the table and cleared the table
C11_Witness ==
    /\ op.name = "Game.cycle"
    /\ ~op.placed
    /\ player.stake > init_stake
    /\ table.bets = <<>>

C13_NoInvalidBet ==
    /\ error # "InvalidBetError"
    /\ pc = "raised" => error = "ValueError"

\* a Martingale session in which bets were placed and whose next wager is
\* above the table maximum, so that can_bet turns it down
C13_Witness ==
    /\ pc = "session"
    /\ player.cls = "Martingale"
    /\ op.name = "cycle"
    /\ op.placed
    /\ player.wager * Pow2(player.loss_count) > table.max
    /\ error = "none"

\* C14: a call of the player's place_bet() takes exactly 1 off rounds; if
\* the bet is turned down by the continuation or the affordability check,
\* stake and the table's bets are as before; otherwise stake is down by
\* exactly the bet's amount and exactly that bet is added to the table.
C14_PlaceBetFrame ==
    [][(op'.name = "Player.place_bet" /\ calls' = calls + 1) =>
         /\ player'.rounds = player.rounds - 1
         /\ player'.loss_count = player.loss_count
         /\ error' = "none"
         /\ IF op'.cont /\ can_bet(player, table, op'.bet)
            THEN /\ op'.placed
                 /\ player'.stake = player.stake - op'.bet.amount
                 /\ table'.bets = Append(table.bets, op'.bet)
            ELSE /\ ~op'.placed
                 /\ player'.stake = player.stake
                 /\ table'.bets = table.bets]_vars

\* a place_bet() call whose bet was dropped, after an earlier call of the
\* same player had put a bet on the table
C14_Witness ==
    /\ op.name = "Player.place_bet"
    /\ ~op.placed
    /\ table.bets # <<>>
    /\ player.stake < init_stake
    /\ player.rounds = init_duration - 2

\* the bins of the wheel made last
LastBins == wheels[Len(wheels)].bins

\* the numbers 1..36 whose bin holds an outcome of the name
NumbersOf(bs, name) == {n \in 1..36 : name \in Names(bs[n])}

\* C15: when build_bins has returned, 'Red' is in exactly 18 of the bins
\* 1..36 and 'Black' in exactly the other 18, both at odds 1:1.
C15_RedBlack ==
    op.name = "Wheel" =>
        /\ Cardinality(NumbersOf(LastBins, "Red")) = 18
        /\ Cardinality(NumbersOf(LastBins, "Black")) = 18
        /\ NumbersOf(LastBins, "Red") \cap NumbersOf(LastBins, "Black") = {}
        /\ \A n \in 1..36 : \A oc \in LastBins[n] :
              oc.name \in {"Red", "Black"} => oc.odds = 1

\* C16: when build_bins has returned, every bin n of 1..36 holds exactly
\* one of Red/Black, exactly one of Even/Odd (Odd iff n is odd) and exactly
\* one of High/Low (Low iff n <= 18), and bins 0 and 37 hold none of the
\* six.
C16_EvenMoney ==
    op.name = "Wheel" =>
        /\ \A n \in 1..36 :
              LET ns == Names(LastBins[n])
              IN  /\ ("Red" \in ns) # ("Black" \in ns)
                  /\ ("Odd" \in ns) # ("Even" \in ns)
                  /\ ("Odd" \in ns) = (n % 2 = 1)
                  /\ ("Low" \in ns) # ("High" \in ns)
                  /\ ("Low" \in ns) = (n <= 18)
                  /\ ("High" \in ns) = (n >= 19)
        /\ \A n \in {0, 37} :
              Names(LastBins[n])
                  \cap {"Red", "Black", "Even", "Odd", "High", "Low"} = {}

\* a second wheel has been built, with bin 27 holding Black, Odd and High
C16_Witness ==
    /\ op.name = "Wheel"
    /\ Len(wheels) = 2
    /\ {"Black", "Odd", "High"} \subseteq Names(LastBins[27])

\* C17: whenever no construction is under way, after Wheel() as after
\* every add_outcome call (those with a number outside 0..37 included),
\* each wheel has 38 bins numbered 0..37 and the wheel's outcome set is the
\* union of the outcome sets of its bins (sets of outcomes compare by name,
\* as Outcome.__eq__ does).
C17_WheelInvariant ==
    pc = "wheel" =>
        \A w \in 1..Len(wheels) :
            /\ DOMAIN wheels[w].bins = 0..37
            /\ Names(outcomes)
                   = UNION {Names(wheels[w].bins[n]) : n \in 0..37}

\* C18: whatever the order in which the generate_* members ran, and for
\* every wheel built, each bin holds the same outcomes, by name and odds:
\* those of all the members' add_outcome calls for that bin.
C18_OrderIndependent ==
    op.name = "Wheel" =>
        \A w \in 1..Len(wheels) : wheels[w].bins = WheelBins

\* two wheels have been built
C18_Witness ==
    /\ op.name = "Wheel"
    /\ Len(wheels) = 2
    /\ todo = {}
    /\ Names(wheels[2].bins[37]) = {"00", "00-0-1-2-3"}

C19_Unique == \A a \in fact : \A b \in fact : a.name = b.name => a = b

C19_Step ==
    /\ fact \subseteq fact'
    /\ (op'.name = "OutcomeFactory.make" /\ calls' = calls + 1) =>
          /\ op'.outcome \in fact'
          /\ op'.outcome.name = op'.key
          /\ \A o \in fact : o.name = op'.key => op'.outcome = o
          /\ op'.key \notin Names(fact) => op'.outcome.odds = op'.odds

\* C19: make(X, r1) and a later make(X, r2) return the same outcome, with
\* odds r1: make returns the cache's entry for the name if there is one and
\* an outcome of the odds given otherwise, the cache holds one entry for a
\* name, and no entry is ever replaced or removed.
C19_FirstWriteWins == []C19_Unique /\ [][C19_Step]_vars

\* a make call for a name in the cache, with other odds than the entry's,
\* returned the entry
C19_Witness ==
    /\ op.name = "OutcomeFactory.make"
    /\ op.key = "X"
    /\ op.outcome.odds # op.odds
    /\ op.outcome \in fact

\* C20: Outcome(name, odds) raises InvalidObjectError and creates no
\* Outcome whenever odds is not a Fraction of non-negative value.
C20_OutcomeRejects ==
    (op.name = "Outcome" /\ ~(op.odds.type = "Fraction" /\ op.odds.val >= 0))
        => (error = "InvalidObjectError" /\ op.created = {})

\* C21: with init_stake >= 0, table.min >= 1 and a base wager >= 1, the
\* player's stake is never negative in a session, for both strategies and
\* every sequence of winning bins.
C21_StakeNonNegative ==
    (init_stake >= 0 /\ table.min >= 1 /\ player.wager >= 1) =>
        /\ player.stake >= 0
        /\ \A i \in 1..Len(stakes) : stakes[i] >= 0

\* a Martingale session that has lost its whole stake in two bets, the
\* next wager being above what is left
C21_Witness ==
    /\ pc = "session"
    /\ player.cls = "Martingale"
    /\ op.name = "cycle"
    /\ op.placed
    /\ cycles >= 2
    /\ player.stake = 0
    /\ player.wager * Pow2(player.loss_count) > player.stake

\* the stake with which the cycle made last was entered
StakeBefore ==
    IF Len(stakes) >= 2 THEN stakes[Len(stakes) - 1] ELSE init_stake

\* C22: a cycle of a session entered with rounds = 1 (it leaves rounds at
\* 0) places no bet, so that the stake is as before and no bet is won or
\* lost; a bet is placed only in a cycle other than the N-th of a session
\* with init_duration = N, which therefore places at most N-1 bets; and a
\* cycle of a Martingale player places no bet only if it is that last one.
C22_LastRound ==
    (pc = "session" /\ op.name = "cycle") =>
        /\ player.rounds = 0 =>
              /\ ~op.placed
              /\ ~op.won
              /\ player.stake = StakeBefore
        /\ op.placed => cycles <= init_duration - 1
        /\ (player.cls = "Martingale" /\ ~op.placed) =>
              (player.rounds = 0 /\ cycles = init_duration)

\* a session of init_duration 3 has recorded its third cycle, in which no
\* bet was placed, after two cycles in which the stake changed
C22_Witness ==
    /\ pc = "session"
    /\ op.name = "cycle"
    /\ init_duration = 3
    /\ cycles = 3
    /\ ~op.placed
    /\ Len(stakes) = 3
    /\ stakes[3] = stakes[2]
    /\ stakes[2] # stakes[1]
    /\ stakes[1] # init_stake

\* C23: a Passenger57 whose stake is below the table minimum cannot bet,
\* whatever the table's limits: the bet it makes (the fallback amount) fails
\* can_bet, playing() and can_continue() are false and place_bet() places
\* nothing and leaves stake and table as they are.
C23_BelowMinimum ==
    (player.cls = "Passenger57" /\ player.stake < table.min) =>
        /\ \A bet \in make_bet(player, table) :
              /\ bet.amount = FallbackAmount
              /\ ~can_bet(player, table, bet)
        /\ playing(player, table) = {FALSE}
        /\ can_continue(player, table) = {FALSE}
        /\ \A d \in QueryPlaceDraws(player, table) :
              LET r == Player_place_bet(player, table, d.bet, d.cont)
              IN  /\ ~r.placed
                  /\ r.player.stake = player.stake
                  /\ r.table = table
        /\ op.name \in {"playing", "can_continue"} => ~op.ret

\* place_bet() of a Passenger57 with stake 55 at a table of minimum 60
\* dropped the fallback bet of 50, with rounds left
C23_Witness ==
    /\ player.cls = "Passenger57"
    /\ op.name = "Player.place_bet"
    /\ op.bet.amount = FallbackAmount
    /\ ~op.placed
    /\ player.stake = 55
    /\ table.min = 60
    /\ player.rounds > 0
    /\ table.bets = <<>>

\* C24: playing(), can_continue(), can_bet(bet) and Table.is_valid(bet)
\* leave the player's stake, rounds and loss_count and the table's bets
\* and limits as they were, whatever they return.
C24_QueriesPure ==
    [][(/\ op'.name \in {"playing", "can_continue", "can_bet", "is_valid"}
        /\ calls' = calls + 1) =>
         /\ player'.stake = player.stake
         /\ player'.rounds = player.rounds
         /\ player'.loss_count = player.loss_count
         /\ table'.bets = table.bets
         /\ table'.min = table.min
         /\ table'.max = table.max]_vars

\* can_continue() returned true after place_bet() had put a bet on the
\* table
C24_Witness ==
    /\ op.name = "can_continue"
    /\ op.ret
    /\ calls = 2
    /\ table.bets # <<>>
    /\ player.stake < init_stake
    /\ player.rounds = init_duration - 1

=============================================================================
